---- MODULE Spec2Model ----
(***************************************************************************)
(* A model of the gossip chat backend: the HTTP API of package chat        *)
(* (createChannel, registerNick, channelMembers over a Store) and the      *)
(* ingest pipeline of package ingest (Run, its delivery handler, stop).    *)
(*                                                                         *)
(* The Store, Channel.Register, NewChannel, broker.DecodeMsg and the       *)
(* broker are collaborators whose code is outside pkg/chat/api.go; they    *)
(* are modelled from their documented contracts.                           *)
(***************************************************************************)
EXTENDS Naturals, Sequences, FiniteSets, TLC

\* ------------------------------------------------------------------ bounds

\* Total number of API requests served in one behaviour.
MaxRequests == 4
\* Highest sequence number the broker assigns on the channel's queue.
MaxSeq == 3
\* Total number of deliveries (first deliveries and redeliveries) to the handler.
MaxDeliveries == 3
\* Number of times the owner of a pipeline calls its stop function.
MaxStops == 2
\* Number of times Run subscribes the pipeline to its queue.
MaxRuns == 2

\* ------------------------------------------------------------ input domains

\* The request handlers (goroutines of the HTTP server) whose steps interleave.
Handlers == {"h1", "h2"}
ChanNames == {"general"}
Privates == {FALSE}
Nicks == {"alice", "bob"}
FullNames == {"Al", "Bo"}
Emails == {"a@x"}

\* The empty string of a request field that was not set.
Empty == ""
\* A secret no generator ever produced.
WrongSecret == "wrong"
\* The n-th generated secret: generated secrets are pairwise distinct.
GenSecret(n) == "s" \o ToString(n)

\* ------------------------------------------------------------------- state

VARIABLES
    store,        \* the Store: channel name -> persisted Chat record
    nextSecret,   \* index of the next secret the generator hands out
    reqs,         \* per handler slot: the request being served and its locals
    conc,         \* per slot: the registerNick slots in flight when it started
    nStarted,     \* number of requests started so far
    createLog,    \* createChanResp's returned so far, in order
    issued        \* registerNickResp's returned so far

apiVars == <<store, nextSecret, reqs, conc, nStarted, createLog, issued>>

VARIABLES
    pipeline,     \* the Ingest instance: idle, subscribed (Run returned stop), stopped
    runs,         \* number of subscriptions Run has made on this instance
    runResult,    \* what the last Run returned: the queue name, the stop function, the error
    closeCalls,   \* number of Close() calls on the closer of the last subscription
    payloadOf,    \* broker: sequence number -> payload, for every message delivered
    delivered,    \* the handler invocations so far: their (seq, data), in order
    handler,      \* the handler invocation in progress: its position and its msg
    appendCalls,  \* the AppendMessage calls so far: (id, msg, whether it succeeded)
    log           \* ChatStore: channel id -> the message log

ingestVars ==
    <<pipeline, runs, runResult, closeCalls, payloadOf, delivered, handler, appendCalls,
      log>>

vars == <<apiVars, ingestVars>>

\* --------------------------------------------------------------- data types

NoChat == [name |-> Empty, secret |-> Empty, private |-> FALSE, members |-> {}]

NoReq ==
    [channel |-> Empty, private |-> FALSE, channelSecret |-> Empty,
     nick |-> Empty, fullName |-> Empty, email |-> Empty, secret |-> Empty]

NoResp == [status |-> 0, secret |-> Empty, members |-> {}, err |-> Empty]

IdleSlot ==
    [op |-> "none", pc |-> "idle", req |-> NoReq, got |-> NoChat, ch |-> NoChat,
     secret |-> Empty, saveCalled |-> FALSE, resp |-> NoResp]

\* http.StatusOK; a handler that returns an error returns no response object.
StatusOK == 200

OkResp(secret, members) ==
    [status |-> StatusOK, secret |-> secret, members |-> members, err |-> Empty]

ErrResp(msg) ==
    [status |-> 0, secret |-> Empty, members |-> {}, err |-> msg]

ErrNickTaken == "nick taken"

\* ------------------------------------------------- collaborators (contracts)

\* chat.NewChannel: a channel with a freshly generated secret and no members.
NewChannel(name, private, fresh) ==
    [name |-> name, secret |-> fresh, private |-> private, members |-> {}]

Member(ch, nick) == CHOOSE m \in ch.members : m.nick = nick

Claimed(ch, nick) == \E m \in ch.members : m.nick = nick

\* A Register whose re-claim stores the updated User beside the old one.
Register_AddAgain(ch, u, presented, fresh) ==
    IF Claimed(ch, u.nick) /\ presented = Member(ch, u.nick).secret
    THEN [ch |-> [ch EXCEPT !.members = @ \cup
                     {[Member(ch, u.nick) EXCEPT !.fullName = u.fullName,
                                                 !.email = u.email]}],
          secret |-> presented, err |-> Empty]
    ELSE IF Claimed(ch, u.nick)
    THEN [ch |-> ch, secret |-> Empty, err |-> ErrNickTaken]
    ELSE [ch |-> [ch EXCEPT !.members = @ \cup {[u EXCEPT !.secret = fresh]}],
          secret |-> fresh, err |-> Empty]

\* A Register that takes the presented secret, when there is one, as the secret
\* of a first claim.
Register_HonorPresented(ch, u, presented, fresh) ==
    IF Claimed(ch, u.nick)
    THEN LET m == Member(ch, u.nick) IN
         IF presented /= Empty /\ presented = m.secret
         THEN [ch |-> [ch EXCEPT !.members =
                          (@ \ {m}) \cup
                          {[m EXCEPT !.fullName = u.fullName, !.email = u.email]}],
               secret |-> m.secret, err |-> Empty]
         ELSE [ch |-> ch, secret |-> Empty, err |-> ErrNickTaken]
    ELSE LET s == IF presented /= Empty THEN presented ELSE fresh IN
         [ch |-> [ch EXCEPT !.members = @ \cup {[u EXCEPT !.secret = s]}],
          secret |-> s, err |-> Empty]

\* Channel.Register: the identity-claim operation on one Chat object.
Register(ch, u, presented, fresh) ==
    IF Claimed(ch, u.nick)
    THEN LET m == Member(ch, u.nick) IN
         IF presented /= Empty /\ presented = m.secret
         THEN [ch |-> [ch EXCEPT !.members =
                          (@ \ {m}) \cup
                          {[m EXCEPT !.fullName = u.fullName, !.email = u.email]}],
               secret |-> m.secret, err |-> Empty]
         ELSE [ch |-> ch, secret |-> Empty, err |-> ErrNickTaken]
    ELSE [ch |-> [ch EXCEPT !.members = @ \cup {[u EXCEPT !.secret = fresh]}],
          secret |-> fresh, err |-> Empty]

\* Store.Get: the persisted record, NotFound when absent.
StoreGet(name) ==
    IF name \in DOMAIN store
    THEN [ch |-> store[name], err |-> FALSE]
    ELSE [ch |-> NoChat, err |-> TRUE]

\* Store.Save: upsert of the channel with its membership snapshot.
StoreSave(ch) ==
    [n \in DOMAIN store \cup {ch.name} |-> IF n = ch.name THEN ch ELSE store[n]]

\* ---------------------------------------------------------- request inputs

\* Secrets a caller can present: nothing, junk, or one the API returned.
KnownChanSecrets == {createLog[i].secret : i \in 1..Len(createLog)}

KnownNickSecrets == {i.secret : i \in issued}

ChanSecretInputs == {Empty, WrongSecret} \cup KnownChanSecrets

NickSecretInputs == {Empty, WrongSecret} \cup KnownNickSecrets

\* A slot is free before its first request and once its response is written;
\* the last response stays readable in the slot until the next request.
Free(r) == reqs[r].pc \in {"idle", "done"}

\* Handlers are anonymous: a new request is served by the first free slot.
CanStart(r) ==
    /\ Free(r)
    /\ r = "h2" => ~Free("h1")
    /\ nStarted < MaxRequests

InFlight == {q \in Handlers : reqs[q].op = "register" /\ reqs[q].pc \in {"got", "registered"}}

\* Slot r takes a new request. A finished request's response stays readable in
\* its slot until the next request is accepted.
Accept(r, slot) ==
    [q \in Handlers |-> IF q = r THEN slot
                    ELSE IF reqs[q].pc = "done" THEN IdleSlot ELSE reqs[q]]

\* Slot r starts a request that overlaps the registrations in `with`; the request
\* it served before is over and overlaps nothing any more.
StartConc(r, with) == [q \in Handlers |-> IF q = r THEN with ELSE conc[q] \ {r}]

\* ------------------------------------------------------------ createChannel

createChannel(r, name, private, saveOk) ==
    /\ UNCHANGED ingestVars
    /\ CanStart(r)
    /\ LET ch == NewChannel(name, private, GenSecret(nextSecret)) IN
       /\ nextSecret' = nextSecret + 1
       /\ nStarted' = nStarted + 1
       /\ IF saveOk
          THEN /\ store' = StoreSave(ch)
               /\ createLog' = Append(createLog, [name |-> name, secret |-> ch.secret])
               /\ reqs' = Accept(r,
                     [IdleSlot EXCEPT !.op = "create", !.pc = "done",
                                      !.req = [NoReq EXCEPT !.channel = name,
                                                            !.private = private],
                                      !.ch = ch, !.saveCalled = TRUE,
                                      !.resp = OkResp(ch.secret, {})])
          ELSE /\ UNCHANGED <<store, createLog>>
               /\ reqs' = Accept(r,
                     [IdleSlot EXCEPT !.op = "create", !.pc = "done",
                                      !.req = [NoReq EXCEPT !.channel = name,
                                                            !.private = private],
                                      !.ch = ch, !.saveCalled = TRUE,
                                      !.resp = ErrResp("could not create channel at this moment")])
    /\ conc' = StartConc(r, {})
    /\ UNCHANGED issued

\* ------------------------------------------------------------- registerNick

\* A handler that fetches the channel and goes on to Register without comparing
\* the channel secret.
registerNickGet_NoSecretCheck(r, channel, channelSecret, secret) ==
    /\ UNCHANGED ingestVars
    /\ CanStart(r)
    /\ nStarted' = nStarted + 1
    /\ conc' = StartConc(r, InFlight)
    /\ LET req == [NoReq EXCEPT !.channel = channel, !.channelSecret = channelSecret,
                                !.secret = secret]
           g == StoreGet(channel)
       IN
       reqs' = Accept(r,
           IF g.err
           THEN [IdleSlot EXCEPT !.op = "register", !.pc = "done", !.req = req,
                                 !.resp = ErrResp("could not fetch channel")]
           ELSE [IdleSlot EXCEPT !.op = "register", !.pc = "got", !.req = req,
                                 !.got = g.ch, !.ch = g.ch])
    /\ UNCHANGED <<store, nextSecret, createLog, issued>>

\* store.Get and the channel secret check. These lines read req.Channel and
\* req.ChannelSecret only; req.Secret is fixed here too, since what a caller can
\* present depends on what it was given before it sent the request.
registerNickGet(r, channel, channelSecret, secret) ==
    /\ UNCHANGED ingestVars
    /\ CanStart(r)
    /\ nStarted' = nStarted + 1
    /\ conc' = StartConc(r, InFlight)
    /\ LET req == [NoReq EXCEPT !.channel = channel, !.channelSecret = channelSecret,
                                !.secret = secret]
           g == StoreGet(channel)
       IN
       reqs' = Accept(r,
           IF g.err
           THEN [IdleSlot EXCEPT !.op = "register", !.pc = "done", !.req = req,
                                 !.resp = ErrResp("could not fetch channel")]
           ELSE IF g.ch.secret /= req.channelSecret
           THEN [IdleSlot EXCEPT !.op = "register", !.pc = "done", !.req = req,
                                 !.got = g.ch, !.ch = g.ch,
                                 !.resp = ErrResp("invalid secret")]
           ELSE [IdleSlot EXCEPT !.op = "register", !.pc = "got", !.req = req,
                                 !.got = g.ch, !.ch = g.ch])
    /\ UNCHANGED <<store, nextSecret, createLog, issued>>

\* ch.Register on the fetched object, and the early return on its error.
\* req.Nick, req.FullName and req.Email are first read here. `presented` is the
\* secret handed to Register; with `stopOnErr` the handler returns Register's error.
registerNickCall(r, nick, fullName, email, presented, stopOnErr) ==
    /\ UNCHANGED ingestVars
    /\ reqs[r].op = "register" /\ reqs[r].pc = "got"
    /\ LET q == [reqs[r].req EXCEPT !.nick = nick, !.fullName = fullName,
                                    !.email = email]
           u == [nick |-> q.nick, fullName |-> q.fullName, email |-> q.email,
                 secret |-> Empty]
           res == Register(reqs[r].ch, u, presented, GenSecret(nextSecret))
       IN /\ nextSecret' = IF Claimed(reqs[r].ch, q.nick) THEN nextSecret
                           ELSE nextSecret + 1
          /\ reqs' = [reqs EXCEPT ![r] =
                IF res.err /= Empty /\ stopOnErr
                THEN [@ EXCEPT !.pc = "done", !.req = q, !.ch = res.ch,
                               !.resp = ErrResp(res.err)]
                ELSE [@ EXCEPT !.pc = "registered", !.req = q, !.ch = res.ch,
                               !.secret = res.secret]]
    /\ UNCHANGED <<store, conc, nStarted, createLog, issued>>

\* A handler that forgets to pass req.Secret on to Register.
registerNickRegister_NoSecret(r, nick, fullName, email) ==
    registerNickCall(r, nick, fullName, email, Empty, TRUE)

\* A handler that drops Register's error and goes on to save.
registerNickRegister_IgnoreErr(r, nick, fullName, email) ==
    registerNickCall(r, nick, fullName, email, reqs[r].req.secret, FALSE)

registerNickRegister(r, nick, fullName, email) ==
    registerNickCall(r, nick, fullName, email, reqs[r].req.secret, TRUE)

\* A handler that returns the response object, secret included, beside the error
\* when store.Save failed.
registerNickSave_LeakSecret(r, saveOk) ==
    /\ UNCHANGED ingestVars
    /\ reqs[r].op = "register" /\ reqs[r].pc = "registered"
    /\ IF saveOk
       THEN /\ store' = StoreSave(reqs[r].ch)
            /\ reqs' = [reqs EXCEPT ![r] =
                  [@ EXCEPT !.pc = "done", !.saveCalled = TRUE,
                            !.resp = OkResp(reqs[r].secret, {})]]
            /\ issued' = issued \cup
                  {[channel |-> reqs[r].req.channel,
                    channelSecret |-> reqs[r].req.channelSecret,
                    nick |-> reqs[r].req.nick, secret |-> reqs[r].secret]}
       ELSE /\ reqs' = [reqs EXCEPT ![r] =
                  [@ EXCEPT !.pc = "done", !.saveCalled = TRUE,
                            !.resp = [ErrResp("could not update channel membership")
                                         EXCEPT !.secret = reqs[r].secret]]]
            /\ UNCHANGED <<store, issued>>
    /\ UNCHANGED <<nextSecret, conc, nStarted, createLog>>

\* store.Save of the modified object, and the response.
registerNickSave(r, saveOk) ==
    /\ UNCHANGED ingestVars
    /\ reqs[r].op = "register" /\ reqs[r].pc = "registered"
    /\ IF saveOk
       THEN /\ store' = StoreSave(reqs[r].ch)
            /\ reqs' = [reqs EXCEPT ![r] =
                  [@ EXCEPT !.pc = "done", !.saveCalled = TRUE,
                            !.resp = OkResp(reqs[r].secret, {})]]
            /\ issued' = issued \cup
                  {[channel |-> reqs[r].req.channel,
                    channelSecret |-> reqs[r].req.channelSecret,
                    nick |-> reqs[r].req.nick, secret |-> reqs[r].secret]}
       ELSE /\ reqs' = [reqs EXCEPT ![r] =
                  [@ EXCEPT !.pc = "done", !.saveCalled = TRUE,
                            !.resp = ErrResp("could not update channel membership")]]
            /\ UNCHANGED <<store, issued>>
    /\ UNCHANGED <<nextSecret, conc, nStarted, createLog>>

\* ----------------------------------------------------------- channelMembers

\* u.Secret = "" on the loop's copy of a member.
Redact(u) == [u EXCEPT !.secret = Empty]

\* store.Get, then a copy of every member, its secret cleared when `redact`.
channelMembersList(r, name, channelSecret, redact) ==
    /\ UNCHANGED ingestVars
    /\ CanStart(r)
    /\ nStarted' = nStarted + 1
    /\ LET g == StoreGet(name)
           q == [NoReq EXCEPT !.channel = name, !.channelSecret = channelSecret]
       IN reqs' = Accept(r,
           IF g.err
           THEN [IdleSlot EXCEPT !.op = "members", !.pc = "done", !.req = q,
                                 !.resp = ErrResp("could not fetch channel")]
           ELSE [IdleSlot EXCEPT !.op = "members", !.pc = "done", !.req = q,
                                 !.got = g.ch,
                                 !.resp = OkResp(Empty,
                                     {IF redact THEN Redact(u) ELSE u :
                                         u \in g.ch.members})])
    /\ conc' = StartConc(r, {})
    /\ UNCHANGED <<store, nextSecret, createLog, issued>>

\* A listing that appends the members as stored.
channelMembers_NoRedact(r, name, channelSecret) ==
    channelMembersList(r, name, channelSecret, FALSE)

channelMembers(r, name, channelSecret) ==
    channelMembersList(r, name, channelSecret, TRUE)

\* ------------------------------------------------------------ API requests

ApiInit ==
    /\ store = <<>>
    /\ nextSecret = 1
    /\ reqs = [r \in Handlers |-> IdleSlot]
    /\ conc = [r \in Handlers |-> {}]
    /\ nStarted = 0
    /\ createLog = <<>>
    /\ issued = {}

Next ==
    \/ \E r \in Handlers, name \in ChanNames, private \in Privates, saveOk \in BOOLEAN :
          createChannel(r, name, private, saveOk)
    \/ \E r \in Handlers, name \in ChanNames, cs \in ChanSecretInputs,
          secret \in NickSecretInputs : registerNickGet(r, name, cs, secret)
    \/ \E r \in Handlers, nick \in Nicks, fullName \in FullNames, email \in Emails :
          registerNickRegister(r, nick, fullName, email)
    \/ \E r \in Handlers, saveOk \in BOOLEAN : registerNickSave(r, saveOk)
    \/ \E r \in Handlers, name \in ChanNames, cs \in ChanSecretInputs :
          channelMembers(r, name, cs)

\* ------------------------------------------------------------------ ingest

IngestIDs == {"general", "random"}

\* broker.Msg
NoMsg == [from |-> Empty, text |-> Empty, time |-> 0, seq |-> 0]

\* What publishers put on the queue: bytes that decode to a Msg (whose own seq
\* field is whatever the publisher encoded), or bytes that do not decode.
Malformed == [valid |-> FALSE, msg |-> NoMsg]

EncodedSeqs == {2}

WellFormed ==
    {[valid |-> TRUE, msg |-> [from |-> "alice", text |-> "hi", time |-> 0, seq |-> q]] :
        q \in EncodedSeqs}

Payloads == {Malformed} \cup WellFormed

\* broker.DecodeMsg: the Msg, or an error for bytes that do not decode.
DecodeMsg(data) ==
    IF data.valid THEN [msg |-> data.msg, err |-> FALSE]
    ELSE [msg |-> NoMsg, err |-> TRUE]

\* The Msg the handler builds when decoding failed, at wall-clock time `now`.
Placeholder(now) ==
    [from |-> "ingest", text |-> "ingest: message unavailable: decoding error",
     time |-> now, seq |-> 0]

HasSeq(l, q) == \E i \in 1..Len(l) : l[i].seq = q

\* The log with msg put at its place in seq order.
InsertBySeq(l, msg) ==
    LET before == SelectSeq(l, LAMBDA m : m.seq < msg.seq)
        after == SelectSeq(l, LAMBDA m : m.seq > msg.seq)
    IN before \o <<msg>> \o after

\* ChatStore.AppendMessage: idempotent for a repeated (channel id, seq); the log
\* of a channel is ordered by seq.
AppendMessage(l, msg) == IF HasSeq(l, msg.seq) THEN l ELSE InsertBySeq(l, msg)

NoRun == [id |-> Empty, queue |-> Empty, closer |-> FALSE, stop |-> FALSE, err |-> Empty]

IdleHandler == [pc |-> "idle", msg |-> NoMsg]

\* wall clock: one tick per delivery
Now == Len(delivered) + 1

\* The owner calls Run on an instance that holds no live subscription: a new
\* one, or one it has stopped, which it runs again for the same channel once the
\* handler has returned. Run itself tests nothing of the instance.
CanRun(id) ==
    /\ pipeline \in {"idle", "stopped"}
    /\ pipeline = "stopped" => (id = runResult.id /\ handler.pc = "idle")
    /\ runs < MaxRuns

\* Ingest.Run: SubscribeQueue on "chat."+id with the handler closure, which
\* gives a closer and registers the handler, or fails; then the stop function on
\* success, the error otherwise. With `checkErr` FALSE Run returns the stop
\* function whatever SubscribeQueue returned.
RunSubscribe(id, subscribeOk, checkErr) ==
    /\ UNCHANGED apiVars
    /\ CanRun(id)
    /\ IF subscribeOk
       THEN /\ pipeline' = "subscribed"
            /\ runs' = runs + 1
            /\ closeCalls' = 0
       ELSE UNCHANGED <<pipeline, runs, closeCalls>>
    /\ runResult' =
          IF subscribeOk \/ ~checkErr
          THEN [id |-> id, queue |-> "chat." \o id, closer |-> subscribeOk,
                stop |-> TRUE, err |-> Empty]
          ELSE [id |-> id, queue |-> "chat." \o id, closer |-> subscribeOk,
                stop |-> FALSE, err |-> "ingest: could not subscribe"]
    /\ UNCHANGED <<payloadOf, delivered, handler, appendCalls, log>>

\* A Run that does not look at SubscribeQueue's error.
Run_IgnoreErr(id, subscribeOk) == RunSubscribe(id, subscribeOk, FALSE)

Run(id, subscribeOk) == RunSubscribe(id, subscribeOk, TRUE)

\* The stop function Run returned: closer.Close().
Stop ==
    /\ UNCHANGED apiVars
    /\ runResult.stop
    /\ closeCalls < MaxStops
    /\ closeCalls' = closeCalls + 1
    /\ pipeline' = "stopped"
    /\ UNCHANGED <<runs, runResult, payloadOf, delivered, handler, appendCalls, log>>

\* The broker invokes the handler with (seq, data): decode, the placeholder on a
\* decode error, msg.Seq = seq. With `onDecodeErr` FALSE the handler gives up on a
\* decode error; with `setSeq` FALSE it leaves msg.Seq as built.
handlerDecode(seq, data, onDecodeErr, setSeq) ==
    /\ UNCHANGED apiVars
    /\ pipeline = "subscribed"
    /\ handler.pc = "idle"
    /\ Len(delivered) < MaxDeliveries
    /\ seq \in DOMAIN payloadOf => data = payloadOf[seq]
    /\ payloadOf' = [q \in DOMAIN payloadOf \cup {seq} |->
                         IF q = seq THEN data ELSE payloadOf[q]]
    /\ delivered' = Append(delivered, [seq |-> seq, data |-> data])
    /\ LET d == DecodeMsg(data)
           msg == IF d.err THEN Placeholder(Now) ELSE d.msg
       IN handler' = IF d.err /\ ~onDecodeErr
                     THEN [pc |-> "idle", msg |-> NoMsg]
                     ELSE [pc |-> "append",
                           msg |-> IF setSeq THEN [msg EXCEPT !.seq = seq] ELSE msg]
    /\ UNCHANGED <<pipeline, runs, runResult, closeCalls, appendCalls, log>>

\* A handler that returns when the payload does not decode.
handlerReceive_DropMalformed(seq, data) == handlerDecode(seq, data, FALSE, TRUE)

\* A handler that does not assign the broker's seq to the Msg.
handlerReceive_KeepSeq(seq, data) == handlerDecode(seq, data, TRUE, FALSE)

\* A handler that hands the Msg to a background appender and returns: the broker
\* delivers again before the append was made, and the appender then holds the
\* newer Msg only.
handlerReceive_Detached(seq, data) ==
    /\ UNCHANGED apiVars
    /\ pipeline = "subscribed"
    /\ Len(delivered) < MaxDeliveries
    /\ seq \in DOMAIN payloadOf => data = payloadOf[seq]
    /\ payloadOf' = [q \in DOMAIN payloadOf \cup {seq} |->
                         IF q = seq THEN data ELSE payloadOf[q]]
    /\ delivered' = Append(delivered, [seq |-> seq, data |-> data])
    /\ LET d == DecodeMsg(data)
           msg == IF d.err THEN Placeholder(Now) ELSE d.msg
       IN handler' = [pc |-> "append", msg |-> [msg EXCEPT !.seq = seq]]
    /\ UNCHANGED <<pipeline, runs, runResult, closeCalls, appendCalls, log>>

\* A handler that assigns the broker's seq to a decoded Msg only: the placeholder
\* keeps the zero Seq it was built with.
handlerReceive_SeqOnDecoded(seq, data) ==
    /\ UNCHANGED apiVars
    /\ pipeline = "subscribed"
    /\ handler.pc = "idle"
    /\ Len(delivered) < MaxDeliveries
    /\ seq \in DOMAIN payloadOf => data = payloadOf[seq]
    /\ payloadOf' = [q \in DOMAIN payloadOf \cup {seq} |->
                         IF q = seq THEN data ELSE payloadOf[q]]
    /\ delivered' = Append(delivered, [seq |-> seq, data |-> data])
    /\ LET d == DecodeMsg(data) IN
       handler' = [pc |-> "append",
                   msg |-> IF d.err THEN Placeholder(Now)
                           ELSE [d.msg EXCEPT !.seq = seq]]
    /\ UNCHANGED <<pipeline, runs, runResult, closeCalls, appendCalls, log>>

handlerReceive(seq, data) == handlerDecode(seq, data, TRUE, TRUE)

\* A handler that calls AppendMessage again when it returned an error.
handlerAppend_Retry(appendOk) ==
    /\ UNCHANGED apiVars
    /\ handler.pc = "append"
    /\ log' = IF appendOk
              THEN [log EXCEPT ![runResult.id] = AppendMessage(@, handler.msg)]
              ELSE log
    /\ appendCalls' = Append(appendCalls,
                             [id |-> runResult.id, msg |-> handler.msg, ok |-> appendOk])
    /\ handler' = IF appendOk THEN IdleHandler ELSE handler
    /\ UNCHANGED <<pipeline, runs, runResult, closeCalls, payloadOf, delivered>>

\* i.store.AppendMessage(id, msg), its error dropped; the handler returns.
handlerAppend(appendOk) ==
    /\ UNCHANGED apiVars
    /\ handler.pc = "append"
    /\ log' = IF appendOk
              THEN [log EXCEPT ![runResult.id] = AppendMessage(@, handler.msg)]
              ELSE log
    /\ appendCalls' = Append(appendCalls,
                             [id |-> runResult.id, msg |-> handler.msg, ok |-> appendOk])
    /\ handler' = IdleHandler
    /\ UNCHANGED <<pipeline, runs, runResult, closeCalls, payloadOf, delivered>>

IngestInit ==
    /\ pipeline = "idle"
    /\ runs = 0
    /\ runResult = NoRun
    /\ closeCalls = 0
    /\ payloadOf = <<>>
    /\ delivered = <<>>
    /\ handler = IdleHandler
    /\ appendCalls = <<>>
    /\ log = [id \in IngestIDs |-> <<>>]

IngestNext ==
    \/ \E id \in IngestIDs, subscribeOk \in BOOLEAN : Run(id, subscribeOk)
    \/ Stop
    \/ \E seq \in 1..MaxSeq, data \in Payloads : handlerReceive(seq, data)
    \/ \E appendOk \in BOOLEAN : handlerAppend(appendOk)

\* ----------------------------------------------------------- specifications

Init == ApiInit /\ IngestInit

\* The API served by concurrent request handlers.
Spec == Init /\ [][Next]_vars

\* One ingest pipeline instance and its broker subscription.
IngestSpec == Init /\ [][IngestNext]_vars

\* ------------------------------------------------------- claims: the API

RegDone(r) == reqs[r].op = "register" /\ reqs[r].pc = "done"

MembersDone(r) == reqs[r].op = "members" /\ reqs[r].pc = "done"

Ok(r) == reqs[r].resp.status = StatusOK

NickTaken(r) == reqs[r].resp.err = ErrNickTaken

StoreFailed(r) == reqs[r].resp.err = "could not update channel membership"

\* The request passed the channel secret check and reached ch.Register.
Registered(r) ==
    /\ reqs[r].op = "register"
    /\ reqs[r].pc \in {"registered", "done"}
    /\ reqs[r].req.nick /= Empty

Overlap(r1, r2) == r1 \in conc[r2] \/ r2 \in conc[r1]

\* Two finished registrations that ran concurrently for the same nick of the same
\* channel, the nick being unclaimed when the first of them fetched the channel.
ConcurrentFirstClaims(r1, r2) ==
    /\ r1 /= r2
    /\ RegDone(r1) /\ RegDone(r2)
    /\ Registered(r1) /\ Registered(r2)
    /\ Overlap(r1, r2)
    /\ reqs[r1].req.channel = reqs[r2].req.channel
    /\ reqs[r1].req.channelSecret = reqs[r2].req.channelSecret
    /\ reqs[r1].req.nick = reqs[r2].req.nick
    /\ \E r \in {r1, r2} : ~Claimed(reqs[r].got, reqs[r].req.nick)

\* C1: of two concurrent registrations of the same unclaimed nick on the same
\* channel (the store accepting every save), exactly one succeeds and the other
\* fails with NickTaken.
C1_ExactlyOneWinner ==
    \A r1, r2 \in Handlers :
        (ConcurrentFirstClaims(r1, r2) /\ ~StoreFailed(r1) /\ ~StoreFailed(r2))
        => \/ Ok(r1) /\ NickTaken(r2)
           \/ Ok(r2) /\ NickTaken(r1)

DistinctNicks(ch) == \A m1, m2 \in ch.members : m1.nick = m2.nick => m1 = m2

\* C2: in every reachable state the members of every channel, persisted or held
\* by a handler, have pairwise-distinct nicks: a nick names one User, one secret.
C2_NicksDistinct ==
    /\ \A c \in DOMAIN store : DistinctNicks(store[c])
    /\ \A r \in Handlers : DistinctNicks(reqs[r].ch)

\* A re-claim succeeded on a channel that holds two members.
C2_Witness ==
    \E r \in Handlers :
        /\ RegDone(r) /\ Ok(r)
        /\ Claimed(reqs[r].got, reqs[r].req.nick)
        /\ Cardinality(store[reqs[r].req.channel].members) = 2

\* C3: a registration of nick n in channel c that presents a secret s returned by
\* an earlier successful registration of n in c succeeds and returns s (requests
\* that pass the channel secret check, the store accepting the save).
C3_ReclaimAlwaysSucceeds ==
    \A r \in Handlers :
        (RegDone(r) /\ Registered(r) /\ ~StoreFailed(r))
        => \A i \in issued :
              (/\ i.channel = reqs[r].req.channel
               /\ i.nick = reqs[r].req.nick
               /\ i.secret = reqs[r].req.secret)
              => Ok(r) /\ reqs[r].resp.secret = i.secret

\* The request re-claims: its nick is a member of the fetched channel and it
\* presents that member's secret.
IsReclaim(r) ==
    /\ Registered(r)
    /\ Claimed(reqs[r].got, reqs[r].req.nick)
    /\ reqs[r].req.secret = Member(reqs[r].got, reqs[r].req.nick).secret

Identity(u) == [nick |-> u.nick, secret |-> u.secret]

\* C4: a re-claim returns the member's stored secret and leaves the channel with
\* the same number of members, the same nicks and the same secrets; the response
\* carries that secret.
C4_ReclaimIdempotent ==
    \A r \in Handlers :
        IsReclaim(r) =>
            LET m == Member(reqs[r].got, reqs[r].req.nick) IN
            /\ ~NickTaken(r)
            /\ reqs[r].secret = m.secret
            /\ Cardinality(reqs[r].ch.members) = Cardinality(reqs[r].got.members)
            /\ {Identity(u) : u \in reqs[r].ch.members}
                  = {Identity(u) : u \in reqs[r].got.members}
            /\ reqs[r].ch.members \ {Member(reqs[r].ch, reqs[r].req.nick)}
                  = reqs[r].got.members \ {m}
            /\ (reqs[r].pc = "done" /\ ~StoreFailed(r))
                  => Ok(r) /\ reqs[r].resp.secret = m.secret

\* A re-claim that changed the member's full name has been answered.
C4_Witness ==
    \E r \in Handlers :
        /\ IsReclaim(r) /\ RegDone(r) /\ Ok(r)
        /\ Member(reqs[r].ch, reqs[r].req.nick).fullName
              /= Member(reqs[r].got, reqs[r].req.nick).fullName

\* The request claims a nick that is a member of the fetched channel without
\* presenting that member's secret.
IsRejectedClaim(r) ==
    /\ Registered(r)
    /\ Claimed(reqs[r].got, reqs[r].req.nick)
    /\ reqs[r].req.secret /= Member(reqs[r].got, reqs[r].req.nick).secret

\* C5: a claim of a taken nick with an empty or different secret ends with
\* NickTaken and no secret, leaves the channel's membership as fetched, and the
\* handler never calls store.Save.
C5_ClaimRejected ==
    \A r \in Handlers :
        IsRejectedClaim(r) =>
            /\ reqs[r].pc = "done"
            /\ NickTaken(r)
            /\ reqs[r].resp.secret = Empty
            /\ reqs[r].ch = reqs[r].got
            /\ ~reqs[r].saveCalled

\* Claims of a taken nick were rejected: one presenting another member's secret.
C5_Witness ==
    \E r \in Handlers :
        /\ IsRejectedClaim(r) /\ RegDone(r)
        /\ reqs[r].req.secret \in KnownNickSecrets \ {Empty}

\* C6: a member listing whose channel secret is missing or is not the channel's
\* secret returns no member data.
C6_ListingNeedsSecret ==
    \A r \in Handlers :
        (MembersDone(r) /\ reqs[r].req.channelSecret /= reqs[r].got.secret)
        => reqs[r].resp.members = {}

\* The step in which handler r serves a channelMembers request.
ListingStep(r) ==
    /\ CanStart(r)
    /\ nStarted' = nStarted + 1
    /\ reqs'[r].op = "members"

\* C7: every User a listing returns has an empty secret, and a listing leaves
\* the persisted channels, their members' secrets included, unchanged.
C7_ListingRedacted ==
    [][\A r \in Handlers :
          ListingStep(r) =>
              /\ \A u \in reqs'[r].resp.members : u.secret = Empty
              /\ {Redact(u) : u \in reqs'[r].got.members} = reqs'[r].resp.members
              /\ store' = store]_vars

\* A listing returned two members.
C7_Witness ==
    \E r \in Handlers :
        /\ MembersDone(r)
        /\ Cardinality(reqs[r].resp.members) = 2

\* The secret returned by the first creation of the channel.
FirstSecret(c) ==
    createLog[CHOOSE i \in 1..Len(createLog) :
                 /\ createLog[i].name = c
                 /\ \A j \in 1..(i - 1) : createLog[j].name /= c].secret

\* C8: the secret stored under a channel name is the one its first creation
\* returned, whatever requests followed.
C8_SecretImmutable ==
    \A c \in DOMAIN store : store[c].secret = FirstSecret(c)

\* The step in which a registerNick request of handler r ends in an error.
RegistrationFails(r) ==
    /\ reqs'[r] /= reqs[r]
    /\ reqs'[r].op = "register"
    /\ reqs'[r].pc = "done"
    /\ reqs'[r].resp.status /= StatusOK

\* C13: a registerNick request that ends in an error (channel not found, wrong
\* channel secret, NickTaken, store.Save failure) returns no secret and hands out
\* none, and the step leaves the persisted channels unchanged; and every step
\* that changes a persisted channel ends a request with a success, so a request
\* that fails has written nothing before it failed.
C13_FailureChangesNothing ==
    [][/\ \A r \in Handlers :
             RegistrationFails(r) =>
                 /\ reqs'[r].resp.secret = Empty
                 /\ reqs'[r].resp.err /= Empty
                 /\ issued' = issued
                 /\ store' = store
       /\ store' /= store =>
             \E r \in Handlers :
                 /\ reqs'[r] /= reqs[r]
                 /\ reqs'[r].pc = "done"
                 /\ reqs'[r].resp.status = StatusOK]_vars

\* A first claim generated a secret, store.Save failed, and the caller got an
\* error: the nick is not in the persisted channel.
C13_Witness ==
    \E r \in Handlers :
        /\ RegDone(r) /\ StoreFailed(r)
        /\ reqs[r].secret /= Empty
        /\ reqs[r].resp.secret = Empty
        /\ ~Claimed(store[reqs[r].req.channel], reqs[r].req.nick)

\* Two registrations that ran concurrently on the same channel, each a first
\* claim of its own nick, both answered with a success; the channel has not been
\* created again since.
ConcurrentDistinctClaims(r1, r2) ==
    /\ r1 /= r2
    /\ RegDone(r1) /\ RegDone(r2)
    /\ Ok(r1) /\ Ok(r2)
    /\ Overlap(r1, r2)
    /\ reqs[r1].req.channel = reqs[r2].req.channel
    /\ reqs[r1].req.channelSecret = reqs[r2].req.channelSecret
    /\ reqs[r1].req.nick /= reqs[r2].req.nick
    /\ ~Claimed(reqs[r1].got, reqs[r1].req.nick)
    /\ ~Claimed(reqs[r2].got, reqs[r2].req.nick)
    /\ store[reqs[r1].req.channel].secret = reqs[r1].req.channelSecret

\* C14: after two concurrent successful first claims of two distinct nicks on
\* one channel, both nicks are members of the persisted channel.
C14_NoLostUpdate ==
    \A r1, r2 \in Handlers :
        ConcurrentDistinctClaims(r1, r2) =>
            /\ Claimed(store[reqs[r1].req.channel], reqs[r1].req.nick)
            /\ Claimed(store[reqs[r1].req.channel], reqs[r2].req.nick)

\* The request fetched its channel and its channel_secret is not the secret of
\* the record it fetched.
WrongChannelSecret(r) ==
    /\ reqs[r].op = "register"
    /\ reqs[r].got /= NoChat
    /\ reqs[r].req.channelSecret /= reqs[r].got.secret

\* C17: a registerNick request whose channel_secret is not the stored channel
\* secret has ended with "invalid secret" and no secret; Channel.Register was not
\* called (no nick was read, no secret generated or looked up, the channel the
\* handler holds is as fetched) and store.Save was not called.
C17_WrongChannelSecretStops ==
    \A r \in Handlers :
        WrongChannelSecret(r) =>
            /\ reqs[r].pc = "done"
            /\ reqs[r].resp.err = "invalid secret"
            /\ reqs[r].resp.secret = Empty
            /\ reqs[r].req.nick = Empty
            /\ reqs[r].secret = Empty
            /\ reqs[r].ch = reqs[r].got
            /\ ~reqs[r].saveCalled

\* A request was rejected that presented a channel secret the API once returned
\* (the channel was created again since), after a registration had succeeded.
C17_Witness ==
    \E r \in Handlers :
        /\ WrongChannelSecret(r) /\ RegDone(r)
        /\ reqs[r].req.channelSecret \in KnownChanSecrets
        /\ issued /= {}

\* The request reached ch.Register with a nick that is not a member of the
\* channel it fetched.
IsFirstClaim(r) ==
    /\ Registered(r)
    /\ ~Claimed(reqs[r].got, reqs[r].req.nick)

\* The User a request hands to ch.Register.
UserOf(q) == [nick |-> q.nick, fullName |-> q.fullName, email |-> q.email,
              secret |-> Empty]

\* C19: a first claim succeeds whatever secret it presents; the secret stored
\* and returned is a generated one, not the presented value, and Register gives
\* the same channel and the same secret for every other secret the caller could
\* have presented in its place.
C19_FirstClaimIgnoresPresented ==
    \A r \in Handlers :
        IsFirstClaim(r) =>
            /\ ~NickTaken(r)
            /\ reqs[r].secret \notin {Empty, WrongSecret, reqs[r].req.secret}
            /\ Member(reqs[r].ch, reqs[r].req.nick).secret = reqs[r].secret
            /\ \A p \in NickSecretInputs \cup {reqs[r].secret} :
                  Register(reqs[r].got, UserOf(reqs[r].req), p, reqs[r].secret)
                     = [ch |-> reqs[r].ch, secret |-> reqs[r].secret, err |-> Empty]
            /\ (reqs[r].pc = "done" /\ ~StoreFailed(r))
                  => Ok(r) /\ reqs[r].resp.secret = reqs[r].secret

\* First claims were answered with a success: one that presented a secret issued
\* for another nick.
C19_Witness ==
    \E r \in Handlers :
        /\ IsFirstClaim(r) /\ RegDone(r) /\ Ok(r)
        /\ \E i \in issued : i.secret = reqs[r].req.secret /\ i.nick /= reqs[r].req.nick

\* ---------------------------------------------------- claims: the pipeline

\* The handler has returned from its j-th invocation.
Handled(j) == j < Len(delivered) \/ (j = Len(delivered) /\ handler.pc = "idle")

\* The Msg the handler has to append for its j-th invocation when the payload
\* decodes: the decoded Msg carrying the broker's seq.
Decoded(j) == [delivered[j].data.msg EXCEPT !.seq = delivered[j].seq]

IsPlaceholder(m) ==
    /\ m.from = "ingest"
    /\ m.text = "ingest: message unavailable: decoding error"

\* The deliveries were [valid(seq=1), malformed(seq=2), valid(seq=3)], all of
\* them handled, and the store accepted every append.
C9_Scenario ==
    /\ Len(delivered) = 3
    /\ Handled(3)
    /\ delivered[1].seq = 1 /\ delivered[1].data.valid
    /\ delivered[2].seq = 2 /\ ~delivered[2].data.valid
    /\ delivered[3].seq = 3 /\ delivered[3].data.valid
    /\ \A k \in 1..Len(appendCalls) : appendCalls[k].ok

\* C9: after the deliveries [valid(seq=1), malformed(seq=2), valid(seq=3)] the
\* log holds exactly 3 entries in that order, the second being the placeholder
\* with seq 2; and whenever a malformed payload was delivered, every later
\* well-formed delivery still is handed to AppendMessage and, the store
\* accepting it, is in the log.
C9_DecodeFailureContinuity ==
    /\ C9_Scenario =>
          LET l == log[runResult.id] IN
          /\ Len(l) = 3
          /\ l[1] = Decoded(1)
          /\ IsPlaceholder(l[2]) /\ l[2].seq = 2
          /\ l[3] = Decoded(3)
    /\ \A i, j \in 1..Len(delivered) :
          (i < j /\ ~delivered[i].data.valid /\ delivered[j].data.valid /\ Handled(j))
          => /\ j <= Len(appendCalls)
             /\ appendCalls[j].msg = Decoded(j)
             /\ appendCalls[j].ok => HasSeq(log[runResult.id], delivered[j].seq)

\* The scenario has run and the log holds its three entries.
C9_Witness == C9_Scenario /\ Len(log[runResult.id]) = 3

Occurrences(l, q) == Cardinality({i \in 1..Len(l) : l[i].seq = q})

\* C10: no log ever holds two entries with the same seq, and the seq of every
\* delivery whose append the store accepted, redelivered or not, is in the
\* channel's log exactly once.
C10_IdempotentAppend ==
    /\ \A id \in IngestIDs : \A q \in 0..MaxSeq : Occurrences(log[id], q) <= 1
    /\ \A k \in 1..Len(appendCalls) :
          appendCalls[k].ok => Occurrences(log[runResult.id], delivered[k].seq) = 1

\* A seq was delivered twice and the store accepted both appends.
C10_Witness ==
    \E k1, k2 \in 1..Len(appendCalls) :
        /\ k1 < k2
        /\ delivered[k1].seq = delivered[k2].seq
        /\ appendCalls[k1].ok /\ appendCalls[k2].ok

\* C11: the stop function Run returned calls Close on the subscription's closer
\* at most once, however often the owner calls it.
C11_TeardownOnce == closeCalls <= 1

\* The Msg the handler builds for its j-th invocation.
MsgFor(j) ==
    IF delivered[j].data.valid THEN Decoded(j)
    ELSE [Placeholder(j) EXCEPT !.seq = delivered[j].seq]

\* C12: the k-th AppendMessage call of the pipeline is the one for the k-th
\* delivery, and it is made before the broker hands over the next delivery: the
\* appends are in delivery order, whatever the sequence numbers.
C12_AppendsInDeliveryOrder ==
    /\ Len(appendCalls) <= Len(delivered)
    /\ Len(delivered) <= Len(appendCalls) + 1
    /\ \A k \in 1..Len(appendCalls) : appendCalls[k].msg = MsgFor(k)

\* Two deliveries came in descending seq order and were appended in that order.
C12_Witness ==
    /\ Len(appendCalls) >= 2
    /\ delivered[1].seq > delivered[2].seq
    /\ appendCalls[1].msg.seq > appendCalls[2].msg.seq

\* C15: the Msg of every AppendMessage call, and the Msg the handler is about to
\* append, carries the seq the broker gave with that delivery, whether the
\* payload decoded (whatever seq it encoded) or the placeholder was built.
C15_SeqIsBrokerSeq ==
    /\ \A k \in 1..Len(appendCalls) : appendCalls[k].msg.seq = delivered[k].seq
    /\ handler.pc = "append" => handler.msg.seq = delivered[Len(delivered)].seq

\* A payload that encoded another seq than the broker's, and a payload that did
\* not decode, have both been handed to AppendMessage.
C15_Witness ==
    \E k1, k2 \in 1..Len(appendCalls) :
        /\ delivered[k1].data.valid
        /\ delivered[k1].data.msg.seq /= delivered[k1].seq
        /\ ~delivered[k2].data.valid
        /\ IsPlaceholder(appendCalls[k2].msg)

\* C16: every delivery the handler has returned from caused one AppendMessage
\* call, made under the id given to Run, and a delivery still in the handler
\* none yet: a call that failed is not repeated, and the handler has returned
\* from it as from one that succeeded.
C16_OneAttemptPerDelivery ==
    /\ Len(appendCalls) = IF handler.pc = "append" THEN Len(delivered) - 1
                          ELSE Len(delivered)
    /\ \A j \in 1..Len(delivered) : Handled(j) <=> j <= Len(appendCalls)
    /\ \A k \in 1..Len(appendCalls) :
          /\ appendCalls[k].id = runResult.id
          /\ appendCalls[k].id \in IngestIDs
          /\ ~appendCalls[k].ok => ~HasSeq(log[appendCalls[k].id], delivered[k].seq)
                                   \/ \E i \in 1..Len(appendCalls) :
                                         /\ i /= k
                                         /\ appendCalls[i].ok
                                         /\ delivered[i].seq = delivered[k].seq

\* The store refused an append; the handler returned, the next delivery came and
\* was appended, and the refused Msg is missing from the log.
C16_Witness ==
    \E k \in 1..Len(appendCalls) :
        /\ k < Len(appendCalls)
        /\ ~appendCalls[k].ok
        /\ appendCalls[k + 1].ok
        /\ ~HasSeq(log[runResult.id], delivered[k].seq)
        /\ HasSeq(log[runResult.id], delivered[k + 1].seq)

\* C18: once the stop function has returned, the instance stays stopped: the
\* handler is not invoked for a new delivery, so no AppendMessage call starts,
\* and the instance is never subscribed again.
C18_StoppedIsTerminal ==
    [][pipeline = "stopped" =>
          /\ pipeline' = "stopped"
          /\ delivered' = delivered]_vars

\* C20: a Run whose SubscribeQueue failed returned an error and no stop function,
\* and a Run whose SubscribeQueue succeeded returned the stop function, no error,
\* and subscribed to the queue "chat."+id; an instance that never subscribed is
\* idle, its handler was never invoked and it made no AppendMessage call, and an
\* instance whose last Run failed is not subscribed.
C20_RunResult ==
    /\ runResult /= NoRun =>
          /\ runResult.queue = "chat." \o runResult.id
          /\ runResult.id \in IngestIDs
          /\ runResult.closer <=> runResult.stop
          /\ runResult.closer <=> runResult.err = Empty
    /\ runResult.err /= Empty => pipeline /= "subscribed"
    /\ runs = 0 <=> pipeline = "idle"
    /\ pipeline = "idle" =>
          /\ delivered = <<>>
          /\ appendCalls = <<>>
          /\ handler = IdleHandler
          /\ closeCalls = 0
    /\ pipeline = "subscribed" => runResult.stop

\* Run was called on a new instance and SubscribeQueue failed.
C20_Witness ==
    /\ runResult.err = "ingest: could not subscribe"
    /\ ~runResult.stop
    /\ runResult.queue = "chat.general"
    /\ pipeline = "idle"

====
